---- MODULE Spec2Model ----
(***************************************************************************)
(* Copy-on-write trie of bustub's primer (src/primer/trie.cpp).            *)
(*                                                                         *)
(* The heap is a sequence of immutable-by-intent nodes; a node reference   *)
(* is an index into it and Null is the null shared_ptr.  A Trie is its     *)
(* root_ reference.  Put, Remove and Get are translated statement by       *)
(* statement from trie.cpp; the node classes of primer/trie.h (TrieNode,   *)
(* TrieNodeWithValue<T>, Clone) follow the node model of the design text.  *)
(***************************************************************************)
EXTENDS Integers, Sequences, FiniteSets, TLC

\* ------------------------------------------------------------------ bounds
MaxLen == 2
MaxOps == 3

\* ------------------------------------------------------------------ inputs
Chars == {"a", "b"}
Keys == UNION {[1..n -> Chars] : n \in 0..MaxLen}
Types == {"uint32_t", "string"}
Values == {1, 2}

\* ------------------------------------------------------------------ nodes
Null == 0
NoType == "none"
EmptyMap == [c \in {} |-> Null]

\* TrieNode(children): a branch node, no value.
TrieNode(children) ==
    [children |-> children, is_value_node |-> FALSE, type |-> NoType, value |-> 0]

\* TrieNodeWithValue<T>(children, value): a node that also holds a value of type T.
TrieNodeWithValue(children, T, value) ==
    [children |-> children, is_value_node |-> TRUE, type |-> T, value |-> value]

\* Clone(): a shallow copy, same children mapping and same value, of the same class.
Clone(node) ==
    [children |-> node.children, is_value_node |-> node.is_value_node,
     type |-> node.type, value |-> node.value]

\* children_[c] = n on a std::map: insert or overwrite the entry for c.
MapSet(m, c, n) == [x \in (DOMAIN m) \cup {c} |-> IF x = c THEN n ELSE m[x]]

\* children_.find(ch) == end() ? nullptr : children_.at(ch)
FindChild(h, node, ch) ==
    IF ch \in DOMAIN h[node].children THEN h[node].children[ch] ELSE Null

\* ------------------------------------------------------------------ Get
NotFound == [kind |-> "nullptr", value |-> 0]
NullDeref == [kind |-> "null_deref", value |-> 0]
Found(v) == [kind |-> "value", value |-> v]

\* GetCast with a static_cast: the stored type is not compared.
GetCastAnyType(h, node, T) ==
    IF node = Null THEN NotFound
    ELSE IF h[node].is_value_node THEN Found(h[node].value)
    ELSE NotFound

\* dynamic_cast<const TrieNodeWithValue<T> *>(node.get()) and the return.
GetCast(h, node, T) ==
    IF node = Null THEN NotFound
    ELSE IF h[node].is_value_node /\ h[node].type = T THEN Found(h[node].value)
    ELSE NotFound

\* The loop of Get from position i (1-based) with the current node `node`:
\* node->children_ is read without a null test.
RECURSIVE GetLoop(_, _, _, _, _)
GetLoop(h, node, key, i, T) ==
    IF i > Len(key) THEN GetCast(h, node, T)
    ELSE IF node = Null THEN NullDeref
    ELSE IF key[i] \notin DOMAIN h[node].children THEN NotFound
    ELSE GetLoop(h, h[node].children[key[i]], key, i + 1, T)

Get(h, root, key, T) == GetLoop(h, root, key, 1, T)

\* What a caller can observe: a null dereference is undefined behaviour, after
\* which the call may crash or return any pointer.
GetOutcomes(h, root, key, T) ==
    LET r == Get(h, root, key, T)
    IN  IF r = NullDeref
        THEN {[kind |-> "crash", value |-> 0], NotFound} \cup {Found(v) : v \in Values}
        ELSE {r}

\* ------------------------------------------------------------------ walk
\* "1. store the same node in the stack": idx counts the bytes consumed.
RECURSIVE Walk(_, _, _, _, _)
Walk(h, cur_node, key, idx, node_stack) ==
    IF idx < Len(key) /\ cur_node # Null
    THEN Walk(h, FindChild(h, cur_node, key[idx + 1]), key, idx + 1,
              Append(node_stack, cur_node))
    ELSE [idx |-> idx, cur_node |-> cur_node, node_stack |-> node_stack]

\* CopyPath without Clone(): the child pointer is written into the shared node.
RECURSIVE CopyPathInPlace(_, _, _, _, _, _)
CopyPathInPlace(h, node_stack, key, i, child_node, cur_node) ==
    IF i >= 1
    THEN LET id == node_stack[i]
             h2 == [h EXCEPT ![id].children = MapSet(@, key[i], child_node)]
         IN  CopyPathInPlace(h2, node_stack, key, i - 1, id, id)
    ELSE [heap |-> h, cur_node |-> cur_node]

\* "3. copy same node": for i = size-1 .. 0, clone node_stack[i] and set the
\* clone's child for key[i]; cur_node is left untouched when the stack is empty.
RECURSIVE CopyPath(_, _, _, _, _, _)
CopyPath(h, node_stack, key, i, child_node, cur_node) ==
    IF i >= 1
    THEN LET h1 == Append(h, Clone(h[node_stack[i]]))
             id == Len(h1)
             h2 == [h1 EXCEPT ![id].children = MapSet(@, key[i], child_node)]
         IN  CopyPath(h2, node_stack, key, i - 1, id, id)
    ELSE [heap |-> h, cur_node |-> cur_node]

\* ------------------------------------------------------------------ Put
\* PutLeaf that never passes the children of the node found.
PutLeafNoChildren(h, cur_node, T, value) == TrieNodeWithValue(EmptyMap, T, value)

\* PutLeaf that keeps the value of a node that already holds one.
PutLeafKeepOld(h, cur_node, T, value) ==
    IF cur_node # Null
    THEN IF h[cur_node].is_value_node THEN Clone(h[cur_node])
         ELSE TrieNodeWithValue(h[cur_node].children, T, value)
    ELSE TrieNodeWithValue(EmptyMap, T, value)

\* "2. create diff node": the value node, reusing the children of the node found.
PutLeaf(h, cur_node, T, value) ==
    IF cur_node # Null
    THEN TrieNodeWithValue(h[cur_node].children, T, value)
    ELSE TrieNodeWithValue(EmptyMap, T, value)

\* PutChain that takes the missing bytes front to back (key[idx++]).
RECURSIVE PutChainForward(_, _, _, _, _)
PutChainForward(h, child_node, key, key_size, idx) ==
    IF idx < key_size
    THEN LET h1 == Append(h, TrieNode(MapSet(EmptyMap, key[idx + 1], child_node)))
         IN  PutChainForward(h1, Len(h1), key, key_size, idx + 1)
    ELSE [heap |-> h, child_node |-> child_node]

\* while (idx < key_size) { ch = key[--key_size]; ... }: the chain of new branch
\* nodes for the bytes that had no node.
RECURSIVE PutChain(_, _, _, _, _)
PutChain(h, child_node, key, key_size, idx) ==
    IF idx < key_size
    THEN LET h1 == Append(h, TrieNode(MapSet(EmptyMap, key[key_size], child_node)))
         IN  PutChain(h1, Len(h1), key, key_size - 1, idx)
    ELSE [heap |-> h, child_node |-> child_node]

Put(h, root, key, T, value) ==
    LET w  == Walk(h, root, key, 0, <<>>)
        h1 == Append(h, PutLeaf(h, w.cur_node, T, value))
        c  == PutChain(h1, Len(h1), key, Len(key), w.idx)
        p  == CopyPath(c.heap, w.node_stack, key, Len(w.node_stack),
                       c.child_node, c.child_node)
    IN  [heap |-> p.heap, root |-> p.cur_node]

\* ------------------------------------------------------------------ Remove
\* RemoveNotFound without the is_value_node_ test.
RemoveNotFoundNoValueCheck(h, w, key) ==
    w.idx # Len(key) \/ w.cur_node = Null

\* "not found key"
RemoveNotFound(h, w, key) ==
    w.idx # Len(key) \/ w.cur_node = Null \/ ~h[w.cur_node].is_value_node

Remove(h, root, key) ==
    LET w == Walk(h, root, key, 0, <<>>)
    IN  IF RemoveNotFound(h, w, key) THEN [heap |-> h, root |-> root]
        ELSE LET empty == (DOMAIN h[w.cur_node].children = {})
                 h1 == IF empty THEN h
                       ELSE Append(h, TrieNode(h[w.cur_node].children))
                 end_node == IF empty THEN Null ELSE Len(h1)
                 p == CopyPath(h1, w.node_stack, key, Len(w.node_stack),
                               end_node, w.cur_node)
             IN  [heap |-> p.heap, root |-> p.cur_node]

\* ------------------------------------------------------------------ state
\* heap: every node ever allocated; versions: the root_ of every Trie handed out;
\* last, prev: the two most recent calls (receiver t, arguments, returned root);
\* got: what the last Get returned; nops: calls made so far;
\* amap: the finite map a single-handle run is compared with (MapSpec);
\* threads: the calls in progress when calls run concurrently (ThreadSpec).
VARIABLES heap, versions, last, prev, got, nops, amap, threads

vars == <<heap, versions, last, prev, got, nops, amap, threads>>

NoOp == [op |-> "none", t |-> Null, key |-> <<>>, type |-> NoType, value |-> 0,
         root |-> Null]
NoResult == [kind |-> "none", value |-> 0]
NoThreads == <<>>

\* Trie(): the empty trie, root_ == nullptr.
Init ==
    /\ heap = <<>>
    /\ versions = {Null}
    /\ last = NoOp
    /\ prev = NoOp
    /\ got = NoResult
    /\ nops = 0
    /\ amap = EmptyMap
    /\ threads = NoThreads

DoPut ==
    /\ nops < MaxOps
    /\ \E t \in versions, key \in Keys, T \in Types, v \in Values :
          LET r == Put(heap, t, key, T, v)
          IN  /\ heap' = r.heap
              /\ versions' = versions \cup {r.root}
              /\ last' = [op |-> "Put", t |-> t, key |-> key, type |-> T,
                          value |-> v, root |-> r.root]
    /\ prev' = last
    /\ got' = NoResult
    /\ nops' = nops + 1
    /\ UNCHANGED <<amap, threads>>

DoRemove ==
    /\ nops < MaxOps
    /\ \E t \in versions, key \in Keys :
          LET r == Remove(heap, t, key)
          IN  /\ heap' = r.heap
              /\ versions' = versions \cup {r.root}
              /\ last' = [op |-> "Remove", t |-> t, key |-> key, type |-> NoType,
                          value |-> 0, root |-> r.root]
    /\ prev' = last
    /\ got' = NoResult
    /\ nops' = nops + 1
    /\ UNCHANGED <<amap, threads>>

DoGet ==
    /\ nops < MaxOps
    /\ \E t \in versions, key \in Keys, T \in Types :
          /\ got' \in GetOutcomes(heap, t, key, T)
          /\ last' = [op |-> "Get", t |-> t, key |-> key, type |-> T,
                      value |-> 0, root |-> t]
    /\ prev' = last
    /\ nops' = nops + 1
    /\ UNCHANGED <<heap, versions, amap, threads>>

Next == DoPut \/ DoRemove \/ DoGet

Spec == Init /\ [][Next]_vars

\* ------------------------------------------------------------------ one handle and a map
\* A caller that keeps a single handle, trie = trie.Put(...) / trie = trie.Remove(...),
\* and beside it a finite map from keys to typed values.
Cur == last.root

MapPut ==
    /\ nops < MaxOps
    /\ \E key \in Keys, T \in Types, v \in Values :
          LET r == Put(heap, Cur, key, T, v)
          IN  /\ heap' = r.heap
              /\ versions' = versions \cup {r.root}
              /\ last' = [op |-> "Put", t |-> Cur, key |-> key, type |-> T,
                          value |-> v, root |-> r.root]
              /\ amap' = [k \in (DOMAIN amap) \cup {key} |->
                             IF k = key THEN [type |-> T, value |-> v] ELSE amap[k]]
    /\ prev' = last
    /\ got' = NoResult
    /\ nops' = nops + 1
    /\ UNCHANGED threads

MapRemove ==
    /\ nops < MaxOps
    /\ \E key \in Keys :
          LET r == Remove(heap, Cur, key)
          IN  /\ heap' = r.heap
              /\ versions' = versions \cup {r.root}
              /\ last' = [op |-> "Remove", t |-> Cur, key |-> key, type |-> NoType,
                          value |-> 0, root |-> r.root]
              /\ amap' = [k \in (DOMAIN amap) \ {key} |-> amap[k]]
    /\ prev' = last
    /\ got' = NoResult
    /\ nops' = nops + 1
    /\ UNCHANGED threads

MapGet ==
    /\ nops < MaxOps
    /\ \E key \in Keys, T \in Types :
          /\ got' \in GetOutcomes(heap, Cur, key, T)
          /\ last' = [op |-> "Get", t |-> Cur, key |-> key, type |-> T,
                      value |-> 0, root |-> Cur]
    /\ prev' = last
    /\ nops' = nops + 1
    /\ UNCHANGED <<heap, versions, amap, threads>>

MapNext == MapPut \/ MapRemove \/ MapGet

MapSpec == Init /\ [][MapNext]_vars

\* ------------------------------------------------------------------ concurrent calls
\* Several threads call Put, Remove and Get on one old version at once.  Each
\* call runs statement by statement on its own locals; the heap is shared.
Mutators == {"m1", "m2"}
Getters == {"g"}
Tids == Mutators \cup Getters

\* The versions the threads may be given: built beforehand, one after the other.
Base1 == Put(<<>>, Null, <<"a">>, "uint32_t", 1)
Base2 == Put(Base1.heap, Base1.root, <<"a", "b">>, "uint32_t", 2)
Base3 == Remove(Base2.heap, Base2.root, <<"a", "b">>)
Base4 == Remove(Base3.heap, Base1.root, <<"a">>)
Base5 == Put(Base4.heap, Base2.root, <<>>, "string", 1)
BaseHeap == Base5.heap
BaseVersions == {Null, Base2.root, Base3.root, Base4.root, Base5.root}

\* The value each mutator passes to Put.
PutArg(th) ==
    IF th = "m1" THEN [type |-> "uint32_t", value |-> 2]
    ELSE [type |-> "string", value |-> 1]

\* The type the getter asks for.
GetArg == "uint32_t"

\* The locals of a call at its first statement.
Start(op, root, key, T, value) ==
    [op |-> op, root |-> root, key |-> key, type |-> T, value |-> value,
     pc |-> IF op = "Get" THEN "gwalk" ELSE "walk",
     idx |-> 0, key_size |-> Len(key), cur_node |-> root, node_stack |-> <<>>,
     child_node |-> Null, i |-> 1, steps |-> 0, owned |-> {},
     result |-> Null, out |-> NoResult, fault |-> FALSE]

ThreadInit ==
    /\ heap = BaseHeap
    /\ versions = BaseVersions
    /\ last = NoOp
    /\ prev = NoOp
    /\ got = NoResult
    /\ nops = 0
    /\ amap = EmptyMap
    /\ \E root \in BaseVersions, gkey \in Keys,
          call \in [Mutators -> {"Put", "Remove"} \X Keys] :
          threads = [th \in Tids |->
                        IF th \in Mutators
                        THEN Start(call[th][1], root, call[th][2],
                                   PutArg(th).type, PutArg(th).value)
                        ELSE Start("Get", root, gkey, GetArg, 0)]

\* The loop test idx < key_size && cur_node without the null test.
WalkGuardNoNullTest(idx, key_size, cur_node) == idx < key_size

\* for (; idx < key_size && cur_node; idx++)
WalkGuard(idx, key_size, cur_node) == idx < key_size /\ cur_node # Null

\* cur_node = node_stack[i] in place of node_stack[i]->Clone().
CopyStepShared(h, node) == [heap |-> h, cur_node |-> node]

\* cur_node = std::shared_ptr<const TrieNode>(node_stack[i]->Clone())
CopyStep(h, node) == [heap |-> Append(h, Clone(h[node])), cur_node |-> Len(h) + 1]

\* The child pointer written through node_stack[i] in place of the clone.
LinkStepOriginal(h, cur_node, original, ch, child_node) ==
    [h EXCEPT ![original].children = MapSet(@, ch, child_node)]

\* const_cast<TrieNode *>(cur_node.get())->children_[key[i]] = child_node
LinkStep(h, cur_node, original, ch, child_node) ==
    [h EXCEPT ![cur_node].children = MapSet(@, ch, child_node)]

Frame == UNCHANGED <<last, prev, got, nops, amap>>

StepTo(th, s) == threads' = [threads EXCEPT ![th] = s]

\* One iteration (or the exit) of the walk loop of Put and Remove.
TWalkOf(th) ==
    LET s == threads[th]
    IN  /\ s.pc = "walk"
        /\ IF WalkGuard(s.idx, s.key_size, s.cur_node)
           THEN IF s.cur_node = Null
                THEN StepTo(th, [s EXCEPT !.pc = "null_deref", !.fault = TRUE])
                ELSE StepTo(th, [s EXCEPT
                         !.node_stack = Append(@, s.cur_node),
                         !.cur_node = FindChild(heap, s.cur_node, s.key[s.idx + 1]),
                         !.idx = @ + 1, !.steps = @ + 1])
           ELSE StepTo(th, [s EXCEPT !.pc = IF s.op = "Put" THEN "leaf" ELSE "check"])
        /\ UNCHANGED <<heap, versions>>

\* Put, "2. create diff node".
TLeafOf(th) ==
    LET s == threads[th]
        id == Len(heap) + 1
    IN  /\ s.pc = "leaf"
        /\ heap' = Append(heap, PutLeaf(heap, s.cur_node, s.type, s.value))
        /\ StepTo(th, [s EXCEPT !.child_node = id, !.owned = @ \cup {id}, !.pc = "chain"])
        /\ UNCHANGED versions

\* Put, one iteration (or the exit) of while (idx < key_size), then line 64.
TChainOf(th) ==
    LET s == threads[th]
        id == Len(heap) + 1
    IN  /\ s.pc = "chain"
        /\ IF s.idx < s.key_size
           THEN /\ heap' = Append(heap, TrieNode(MapSet(EmptyMap, s.key[s.key_size],
                                                        s.child_node)))
                /\ StepTo(th, [s EXCEPT !.key_size = @ - 1, !.cur_node = id,
                                        !.child_node = id, !.owned = @ \cup {id}])
           ELSE /\ heap' = heap
                /\ StepTo(th, [s EXCEPT !.cur_node = s.child_node,
                                        !.i = Len(s.node_stack), !.pc = "copy"])
        /\ UNCHANGED versions

\* Remove, "not found key": return *this.
TCheckOf(th) ==
    LET s == threads[th]
    IN  /\ s.pc = "check"
        /\ IF RemoveNotFound(heap, s, s.key)
           THEN /\ StepTo(th, [s EXCEPT !.result = s.root, !.pc = "done"])
                /\ versions' = versions \cup {s.root}
           ELSE /\ StepTo(th, [s EXCEPT !.pc = "end"])
                /\ versions' = versions
        /\ heap' = heap

\* Remove, "2. remove end node".
TEndOf(th) ==
    LET s == threads[th]
        id == Len(heap) + 1
    IN  /\ s.pc = "end"
        /\ IF DOMAIN heap[s.cur_node].children = {}
           THEN /\ heap' = heap
                /\ StepTo(th, [s EXCEPT !.child_node = Null,
                                        !.i = Len(s.node_stack), !.pc = "copy"])
           ELSE /\ heap' = Append(heap, TrieNode(heap[s.cur_node].children))
                /\ StepTo(th, [s EXCEPT !.child_node = id, !.owned = @ \cup {id},
                                        !.i = Len(s.node_stack), !.pc = "copy"])
        /\ UNCHANGED versions

\* "3. copy same node": the loop test and the Clone() of node_stack[i].
TCopyOf(th) ==
    LET s == threads[th]
    IN  /\ s.pc = "copy"
        /\ IF s.i >= 1
           THEN IF s.node_stack[s.i] = Null
                THEN /\ heap' = heap
                     /\ StepTo(th, [s EXCEPT !.pc = "null_deref", !.fault = TRUE])
                ELSE LET r == CopyStep(heap, s.node_stack[s.i])
                     IN  /\ heap' = r.heap
                         /\ StepTo(th, [s EXCEPT !.cur_node = r.cur_node,
                                  !.owned = @ \cup ({r.cur_node} \ DOMAIN heap),
                                  !.pc = "link"])
           ELSE /\ heap' = heap
                /\ StepTo(th, [s EXCEPT !.pc = "ret"])
        /\ UNCHANGED versions

\* "3. copy same node": the write of the child pointer, child_node = cur_node, i--.
TLinkOf(th) ==
    LET s == threads[th]
    IN  /\ s.pc = "link"
        /\ heap' = LinkStep(heap, s.cur_node, s.node_stack[s.i], s.key[s.i], s.child_node)
        /\ StepTo(th, [s EXCEPT !.child_node = s.cur_node, !.i = @ - 1, !.pc = "copy"])
        /\ UNCHANGED versions

\* return Trie(cur_node)
TReturnOf(th) ==
    LET s == threads[th]
    IN  /\ s.pc = "ret"
        /\ StepTo(th, [s EXCEPT !.result = s.cur_node, !.pc = "done"])
        /\ versions' = versions \cup {s.cur_node}
        /\ heap' = heap

\* Get, one iteration (or the exit) of for (auto c : key).
GWalkOf(th) ==
    LET s == threads[th]
    IN  /\ s.pc = "gwalk"
        /\ IF s.i > Len(s.key) THEN StepTo(th, [s EXCEPT !.pc = "cast"])
           ELSE IF s.cur_node = Null
           THEN \E r \in GetOutcomes(heap, Null, s.key, s.type) :
                    StepTo(th, [s EXCEPT !.out = r, !.fault = TRUE, !.pc = "done"])
           ELSE IF s.key[s.i] \notin DOMAIN heap[s.cur_node].children
           THEN StepTo(th, [s EXCEPT !.out = NotFound, !.pc = "done"])
           ELSE StepTo(th, [s EXCEPT !.cur_node = heap[s.cur_node].children[s.key[s.i]],
                                     !.i = @ + 1])
        /\ UNCHANGED <<heap, versions>>

\* Get, the dynamic_cast and the return.
GCastOf(th) ==
    LET s == threads[th]
    IN  /\ s.pc = "cast"
        /\ StepTo(th, [s EXCEPT !.out = GetCast(heap, s.cur_node, s.type), !.pc = "done"])
        /\ UNCHANGED <<heap, versions>>

MutatorStep(th) ==
    \/ TWalkOf(th) \/ TLeafOf(th) \/ TChainOf(th) \/ TCheckOf(th)
    \/ TEndOf(th) \/ TCopyOf(th) \/ TLinkOf(th) \/ TReturnOf(th)

TWalk == \E th \in Mutators : TWalkOf(th) /\ Frame
TLeaf == \E th \in Mutators : TLeafOf(th) /\ Frame
TChain == \E th \in Mutators : TChainOf(th) /\ Frame
TCheck == \E th \in Mutators : TCheckOf(th) /\ Frame
TEnd == \E th \in Mutators : TEndOf(th) /\ Frame
TCopy == \E th \in Mutators : TCopyOf(th) /\ Frame
TLink == \E th \in Mutators : TLinkOf(th) /\ Frame
TReturn == \E th \in Mutators : TReturnOf(th) /\ Frame
GWalk == \E th \in Getters : GWalkOf(th) /\ Frame
GCast == \E th \in Getters : GCastOf(th) /\ Frame

ThreadNext ==
    \/ TWalk \/ TLeaf \/ TChain \/ TCheck \/ TEnd \/ TCopy \/ TLink \/ TReturn
    \/ GWalk \/ GCast

ThreadSpec == ThreadInit /\ [][ThreadNext]_vars

\* ------------------------------------------------------------------ reading a version
\* The node a key leads to, following only present children (Null when the
\* path breaks); independent of Get's own loop.
RECURSIVE NodeAt(_, _, _, _)
NodeAt(h, node, key, i) ==
    IF node = Null \/ i > Len(key) THEN node
    ELSE IF key[i] \in DOMAIN h[node].children
         THEN NodeAt(h, h[node].children[key[i]], key, i + 1)
         ELSE Null

HasValue(h, root, key) ==
    LET n == NodeAt(h, root, key, 1) IN n # Null /\ h[n].is_value_node

StoredKeys(h, root) == {k \in Keys : HasValue(h, root, k)}

\* The nodes reachable from a node through present children.
RECURSIVE Reachable(_, _)
Reachable(h, node) ==
    IF node = Null THEN {}
    ELSE {node} \cup UNION {Reachable(h, h[node].children[c]) : c \in DOMAIN h[node].children}

HasChild(h, node) == \E c \in DOMAIN h[node].children : h[node].children[c] # Null

IsLeaf(h, node) == ~HasChild(h, node)

\* k is a proper extension of p.
Extends(k, p) == Len(p) < Len(k) /\ SubSeq(k, 1, Len(p)) = p

\* The last call changed something: it is a Remove that found its key.
Removed == last.op = "Remove" /\ HasValue(heap, last.t, last.key)

\* ------------------------------------------------------------------ claims

\* C1 (round trip): after t2 = t.Put(k, v) with a value of type T, on any version
\* t handed out so far and any key k (the empty key too), t2.Get<T>(k) returns v.
RoundTrip ==
    last.op = "Put" => Get(heap, last.root, last.key, last.type) = Found(last.value)

\* C1 witness: a Put of the empty key, and one of a longest key, on a non-empty
\* version that a Remove produced, followed by the lookup of that key.
RoundTripWitness ==
    /\ last.op = "Put" /\ prev.op = "Remove" /\ last.t = prev.root
    /\ last.t # Null /\ prev.root # prev.t
    /\ Len(last.key) \in {0, MaxLen}
    /\ Get(heap, last.root, last.key, last.type) = Found(last.value)

\* C2 (delete correctness): after t1 = t.Put(k, v) and t2 = t1.Remove(k),
\* t2.Get(k) returns not found, for every requested type.
DeleteCorrectness ==
    (prev.op = "Put" /\ last.op = "Remove" /\ last.t = prev.root /\ last.key = prev.key)
        => \A T \in Types : Get(heap, last.root, last.key, T) = NotFound

\* C3 (Get is total): a Get on any version handed out, with any key, never
\* dereferences an absent node and returns the stored value or not found.
GetNeverDereferencesNull ==
    last.op = "Get" =>
        /\ Get(heap, last.t, last.key, last.type) # NullDeref
        /\ got.kind \in {"nullptr", "value"}

\* C4 (old versions unaffected): no Put or Remove changes what Get returns, for
\* any key and type, on any version handed out before the call.
OldVersionsUnaffected ==
    [][\A t \in versions, k \in Keys, T \in Types :
          Get(heap', t, k, T) = Get(heap, t, k, T)]_vars

\* C4 witness: a Remove that found its key built a new version while the version
\* it was called on still holds the key.
OldVersionsWitness ==
    /\ Removed /\ last.root # last.t /\ Len(last.key) > 0
    /\ \E T \in Types : Get(heap, last.t, last.key, T).kind = "value"
    /\ \A T \in Types : Get(heap, last.root, last.key, T) = NotFound

\* C5 (Put isolation): after t2 = t.Put(k', v), t2.Get(k) equals t.Get(k) for
\* every key k other than k' and every type.
PutIsolation ==
    last.op = "Put" =>
        \A k \in Keys \ {last.key}, T \in Types :
            Get(heap, last.root, k, T) = Get(heap, last.t, k, T)

\* C6 (Remove isolation): after t2 = t.Remove(k'), t2.Get(k) equals t.Get(k) for
\* every key k other than k' and every type; a key that extends a removed leaf
\* key is not found.
RemoveIsolation ==
    last.op = "Remove" =>
        \A k \in Keys \ {last.key}, T \in Types :
            /\ Get(heap, last.root, k, T) = Get(heap, last.t, k, T)
            /\ (Removed /\ IsLeaf(heap, NodeAt(heap, last.t, last.key, 1))
                /\ Extends(k, last.key)) => Get(heap, last.root, k, T) = NotFound

\* C7 (no-op delete): a Remove of a key that holds no value in t returns t's own
\* root, allocates no node, and leaves every Get as it was.
NoOpDelete ==
    [][(last'.op = "Remove" /\ nops' = nops + 1 /\ ~HasValue(heap, last'.t, last'.key))
          => /\ last'.root = last'.t
             /\ heap' = heap
             /\ \A k \in Keys, T \in Types :
                   Get(heap', last'.root, k, T) = Get(heap, last'.t, k, T)]_vars

\* C7 witness: a Remove whose key leads to a branch node without a value, and one
\* whose key runs off the trie, both returning the version they were called on.
NoOpDeleteWitness ==
    /\ last.op = "Remove" /\ last.t # Null /\ last.root = last.t
    /\ prev.op = "Remove" /\ prev.t = last.t /\ prev.root = prev.t
    /\ NodeAt(heap, last.t, last.key, 1) # Null
    /\ ~heap[NodeAt(heap, last.t, last.key, 1)].is_value_node
    /\ NodeAt(heap, prev.t, prev.key, 1) = Null

\* C8 (overwrite): after t1 = t.Put(k, v1) and t2 = t1.Put(k, v2), t2.Get(k)
\* returns v2 and t1.Get(k) still returns v1.
Overwrite ==
    (prev.op = "Put" /\ last.op = "Put" /\ last.t = prev.root /\ last.key = prev.key)
        => /\ Get(heap, last.root, last.key, last.type) = Found(last.value)
           /\ Get(heap, prev.root, prev.key, prev.type) = Found(prev.value)

\* C8 witness: two Puts of one non-empty key with different values, the second
\* on the version the first returned.
OverwriteWitness ==
    /\ prev.op = "Put" /\ last.op = "Put" /\ last.t = prev.root /\ last.key = prev.key
    /\ prev.value # last.value /\ prev.type = last.type /\ Len(last.key) > 0
    /\ Get(heap, last.root, last.key, last.type) = Found(last.value)

\* C9 (pruning, I3): in every version handed out, every node reachable from the
\* root holds a value or has a child.
PruningInvariant ==
    \A t \in versions :
        \A n \in Reachable(heap, t) : heap[n].is_value_node \/ HasChild(heap, n)

\* C10 (removing the last key empties the trie): a Remove that leaves no key
\* stored returns the empty trie, and so does Remove(Put(empty, k, v), k).
RemoveLastKeyEmpties ==
    /\ (Removed /\ StoredKeys(heap, last.root) = {}) => last.root = Null
    /\ (prev.op = "Put" /\ prev.t = Null /\ last.op = "Remove"
        /\ last.t = prev.root /\ last.key = prev.key) => last.root = Null

\* C11 (type safety): where a key holds a value put with type T1, Get<T1> returns
\* the value and Get<T2> with any other type returns not found, on every version
\* handed out; so does the Get that was actually called.
TypeSafety ==
    /\ \A t \in versions, k \in Keys :
          HasValue(heap, t, k) =>
              LET n == NodeAt(heap, t, k, 1)
              IN  \A T \in Types :
                     Get(heap, t, k, T) =
                         IF T = heap[n].type THEN Found(heap[n].value) ELSE NotFound
    /\ last.op = "Put" =>
          \A T \in Types \ {last.type} : Get(heap, last.root, last.key, T) = NotFound
    /\ (last.op = "Get" /\ HasValue(heap, last.t, last.key)) =>
          LET n == NodeAt(heap, last.t, last.key, 1)
          IN  got = IF last.type = heap[n].type THEN Found(heap[n].value) ELSE NotFound

\* C11 witness: a Get with the wrong type on a key that holds a value returned
\* not found.
TypeSafetyWitness ==
    /\ last.op = "Get" /\ HasValue(heap, last.t, last.key) /\ Len(last.key) > 0
    /\ heap[NodeAt(heap, last.t, last.key, 1)].type # last.type
    /\ got = NotFound

\* C13 (structural sharing of Put): t.Put(k, v) allocates at most |k| + 1 nodes,
\* and at every node on the path of k in the new version each child that is not
\* the next step of the path is the very node (same reference) t has there; the
\* new version has no other child off the path.
PutSharing ==
    [][(last'.op = "Put" /\ nops' = nops + 1) =>
          LET k == last'.key
              OnPath(i, c) == i < Len(k) /\ c = k[i + 1]
          IN  /\ Len(heap') - Len(heap) <= Len(k) + 1
              /\ \A i \in 0..Len(k) :
                    LET new == NodeAt(heap', last'.root, SubSeq(k, 1, i), 1)
                        old == NodeAt(heap, last'.t, SubSeq(k, 1, i), 1)
                        oldKids == IF old = Null THEN EmptyMap ELSE heap[old].children
                    IN  /\ new # Null
                        /\ \A c \in Chars :
                              ~OnPath(i, c) =>
                                  /\ (c \in DOMAIN heap'[new].children) = (c \in DOMAIN oldKids)
                                  /\ c \in DOMAIN oldKids =>
                                        heap'[new].children[c] = oldKids[c]]_vars

\* C13 witness: a Put of a longest key into a version whose root has a child
\* off the path, which the new root shares by reference.
PutSharingWitness ==
    /\ last.op = "Put" /\ last.t # Null /\ Len(last.key) = MaxLen
    /\ \E c \in Chars \ {last.key[1]} :
          /\ c \in DOMAIN heap[last.t].children
          /\ heap[last.t].children[c] # Null
          /\ heap[last.root].children[c] = heap[last.t].children[c]
    /\ Len(heap) >= Len(last.key) + 1

\* C16 (no null child): in every version handed out, every entry of the children
\* mapping of every reachable node refers to a present node.
NoNullChild ==
    \A t \in versions :
        \A n \in Reachable(heap, t) :
            \A c \in DOMAIN heap[n].children : heap[n].children[c] # Null

\* C17 (refinement of a finite map): after every step of a run of Put and Remove
\* on one handle, for every key, Get on the current version returns the map's
\* value for the key (asked with its type) and not found for a key not in the map.
MapRefinement ==
    nops > 0 =>
        \A k \in Keys, T \in Types :
            Get(heap, Cur, k, T) =
                IF k \in DOMAIN amap /\ amap[k].type = T
                THEN Found(amap[k].value) ELSE NotFound

\* ------------------------------------------------------------------ claims on concurrent calls
Range(f) == {f[x] : x \in DOMAIN f}

\* The contents of a version: the tree under its root, without node identities.
RECURSIVE Tree(_, _)
Tree(h, node) ==
    IF node = Null THEN <<>>
    ELSE <<[is_value_node |-> h[node].is_value_node, type |-> h[node].type,
            value |-> h[node].value],
           [c \in DOMAIN h[node].children |-> Tree(h, h[node].children[c])]>>

\* What the call of a mutator returns when it runs alone on the old version.
Alone(s) ==
    IF s.op = "Put" THEN Put(BaseHeap, s.root, s.key, s.type, s.value)
    ELSE Remove(BaseHeap, s.root, s.key)

AllDone == \A th \in Tids : threads[th].pc = "done"

\* C12 (Put and Remove never fail): a Put or Remove on any version and key never
\* dereferences an absent node, walks at most |key| steps, always has a next
\* statement until it returns, and returns a version.
PutRemoveNeverFail ==
    \A th \in Mutators :
        LET s == threads[th]
        IN  /\ ~s.fault /\ s.pc # "null_deref"
            /\ s.steps <= Len(s.key) /\ Len(s.node_stack) = s.steps
            /\ Null \notin Range(s.node_stack)
            /\ s.pc # "done" => ENABLED MutatorStep(th)
            /\ s.pc = "done" =>
                  /\ s.result \in versions
                  /\ s.result = Null \/ s.result \in DOMAIN heap

\* C12 witness: a Put and a Remove of non-empty keys have both returned after a
\* walk that stopped early at an absent node.
PutRemoveNeverFailWitness ==
    /\ \A th \in Mutators :
          /\ threads[th].pc = "done"
          /\ Len(threads[th].key) > 0
          /\ threads[th].cur_node = Null \/ threads[th].op = "Put"
          /\ threads[th].steps < Len(threads[th].key) \/ threads[th].root = Base4.root
    /\ {threads[th].op : th \in Mutators} = {"Put", "Remove"}

\* C14 (node immutability): the nodes of the old version stay as they were, and
\* a step changes a node only if it is the clone the stepping call has just
\* made, the call has not returned, and only its children mapping changes.
NodeImmutability ==
    [][/\ \A n \in DOMAIN BaseHeap : heap'[n] = BaseHeap[n]
       /\ \A n \in DOMAIN heap :
             heap'[n] # heap[n] =>
                 \E th \in Mutators :
                     /\ threads[th].pc = "link" /\ threads'[th].pc = "copy"
                     /\ n = threads[th].cur_node /\ n \in threads[th].owned
                     /\ n \notin UNION {threads[o].owned : o \in Tids \ {th}}
                     /\ heap'[n] = [heap[n] EXCEPT !.children = heap'[n].children]]_vars

\* C14 witness: both mutators have returned, each after writing a child pointer
\* into at least one clone, and the old version is as it was.
NodeImmutabilityWitness ==
    /\ \A th \in Mutators :
          /\ threads[th].pc = "done" /\ Len(threads[th].node_stack) > 0
          /\ threads[th].result # threads[th].root
          /\ Cardinality(threads[th].owned) > 1
    /\ \A n \in DOMAIN BaseHeap : heap[n] = BaseHeap[n]

\* C15 (lock-free derivation): under every interleaving, each Put or Remove
\* returns the contents it returns when run alone on the old version (and the old
\* root itself when that is a no-op), each Get returns what it returns on the
\* quiescent old version, and the old version is unchanged.
LockFreeDerivation ==
    /\ \A th \in Mutators :
          LET s == threads[th]
          IN  s.pc = "done" =>
                  /\ Tree(heap, s.result) = Tree(Alone(s).heap, Alone(s).root)
                  /\ Alone(s).root = s.root => s.result = s.root
    /\ \A th \in Getters :
          LET s == threads[th]
          IN  s.pc = "done" => s.out \in GetOutcomes(BaseHeap, s.root, s.key, s.type)
    /\ \A n \in DOMAIN BaseHeap : heap[n] = BaseHeap[n]
    /\ \A t \in BaseVersions : Tree(heap, t) = Tree(BaseHeap, t)

\* C15 witness: a Put and a Remove that both changed the same non-empty old
\* version, and a Get that found a value in it, have all returned.
LockFreeDerivationWitness ==
    /\ AllDone
    /\ {threads[th].op : th \in Mutators} = {"Put", "Remove"}
    /\ \A th \in Mutators :
          threads[th].result # threads[th].root /\ threads[th].root # Null
    /\ \A th \in Getters : threads[th].out.kind = "value"

====
